---- MODULE Spec2Model ----
(***************************************************************************)
(* Model of src/src/server.ts: an in-memory flight store (a Map of routes, *)
(* each with an itinerary of flights) served by five request handlers.     *)
(* The handlers run to completion one at a time (single-threaded event     *)
(* loop, no await inside a handler), so each handler is one atomic action. *)
(*                                                                         *)
(* Timestamps are strings in the source.  A timestamp string is modelled   *)
(* by what the code does with it: it is compared as text (<=, ===) and it  *)
(* is parsed to epoch milliseconds (new Date(s).getTime()).  A string      *)
(* "YYYY-MM-DDTHH:MM:SS.sss+hh:mm" is the record                            *)
(*     [kind |-> "ts", local |-> wall-clock ms, offset |-> zone offset ms] *)
(* whose text order is the order of (local, offset) (fixed-width fields,   *)
(* offsets east of Greenwich only) and whose parsed value is               *)
(* local - offset.  Query hints may also be absent (undefined), the empty  *)
(* string, or text that Date cannot parse (NaN).                           *)
(***************************************************************************)
EXTENDS Integers, Sequences, FiniteSets, TLC

VARIABLES routes, request, response

vars == <<routes, request, response>>

----------------------------------------------------------------------------
(* Bounds of the model *)

MaxSeats == 2
MaxNumSeats == 3
MaxNegSeats == 1

(* Numbers of the program *)

WindowMs == 86400000

HourMs == 1000 * 60 * 60
MinuteMs == 1000 * 60
DayMs == 24 * 60 * 60 * 1000

----------------------------------------------------------------------------
(* Timestamp strings *)

TS(local, offset) == [kind |-> "ts", local |-> local, offset |-> offset]
Absent == [kind |-> "absent", local |-> 0, offset |-> 0]
EmptyString == [kind |-> "empty", local |-> 0, offset |-> 0]
Unparseable == [kind |-> "invalid", local |-> 0, offset |-> 0]

(* !x for a query parameter: undefined and "" are falsy *)
Falsy(s) == s.kind \in {"absent", "empty"}

(* new Date(s).getTime(): epoch milliseconds, or NaN *)
IsNaN(s) == s.kind # "ts"
getTime(s) == s.local - s.offset

(* a <= b on two timestamp strings: text order *)
StrLeq(a, b) ==
    \/ a.local < b.local
    \/ a.local = b.local /\ a.offset <= b.offset

Abs(x) == IF x < 0 THEN -x ELSE x

----------------------------------------------------------------------------
(* The dataset, data.json, as the loader receives it *)

T0 == 2 * DayMs
Z2 == 2 * HourMs

Prices(adult) == [currency |-> "SEK", adult |-> adult, child |-> adult \div 2]

Flight(id, dep, arr, seats, adult) ==
    [flight_id |-> id, departureAt |-> dep, arrivalAt |-> arr,
     availableSeats |-> seats, prices |-> Prices(adult)]

Route(id, from, to, its) ==
    [route_id |-> id, departureDestination |-> from,
     arrivalDestination |-> to, itineraries |-> its]

(* arrival strings tried for the first X->Y flight *)
ArrivalPool ==
    { TS(T0 + 10 * HourMs, 0),          (* 10:00Z                       *)
      TS(T0 + 10 * HourMs + 1, 0),      (* 10:00:00.001Z                *)
      TS(T0 + 11 * HourMs, 0),          (* 11:00Z                       *)
      TS(T0 + 12 * HourMs, Z2) }         (* 12:00+02:00, that is 10:00Z  *)

(* departure strings tried for the second Y->Z flight *)
DeparturePool ==
    { TS(T0 + 11 * HourMs, 0),          (* 11:00Z                       *)
      TS(T0 + 11 * HourMs, Z2) }         (* 11:00+02:00, that is 09:00Z  *)

FlightData(arrA1, depB2) ==
    << Route("r1", "X", "Y",
         << Flight("F1", TS(T0 + 8 * HourMs, 0), arrA1, 1, 100),
            Flight("F2", TS(T0 + 8 * HourMs + 1, 0), TS(T0 + 10 * HourMs, 0), 2, 150) >>),
       Route("r2", "Y", "Z",
         << Flight("F3", TS(T0 + DayMs + 10 * HourMs, 0),
                         TS(T0 + DayMs + 12 * HourMs, 0), 1, 200),
            Flight("F1", depB2, TS(T0 + 13 * HourMs, 0), 2, 250) >>),
       Route("r3", "X", "Z",
         << Flight("F0", TS(T0 + 7 * HourMs, 0), TS(T0 + 9 * HourMs, 0), 2, 900) >>),
       Route("r3", "X", "Z",
         << Flight("F4", TS(T0 + 9 * HourMs, 0), TS(T0 + 14 * HourMs, 0), 1, 300) >>) >>

----------------------------------------------------------------------------
(* routes = new Map(); flightData.forEach(route => routes.set(route_id, route)) *)
(* The Map is the sequence of its values in insertion order; set() on a key    *)
(* already present replaces the value in place.                                *)

MapSet(map, route) ==
    IF \E i \in 1..Len(map) : map[i].route_id = route.route_id
    THEN [i \in 1..Len(map) |->
            IF map[i].route_id = route.route_id THEN route ELSE map[i]]
    ELSE Append(map, route)

RECURSIVE LoadRoutes(_, _, _)
LoadRoutes(flightData, k, map) ==
    IF k > Len(flightData) THEN map
    ELSE LoadRoutes(flightData, k + 1, MapSet(map, flightData[k]))

NoRequest == [op |-> "none"]
NoResponse == [status |-> 0, error |-> "", body |-> <<>>]

Init ==
    /\ \E arrA1 \in ArrivalPool, depB2 \in DeparturePool :
          routes = LoadRoutes(FlightData(arrA1, depB2), 1, <<>>)
    /\ request = NoRequest
    /\ response = NoResponse

(* res.json(x) / res.status(n).json({error}) *)
Ok(body) == [status |-> 200, error |-> "", body |-> body]
Fail(status, error) == [status |-> status, error |-> error, body |-> <<>>]

(* a Flight object: its place in the store (identity) and its JSON value *)
FlightAt(ref) == routes[ref[1]].itineraries[ref[2]]
Entry(ref) == [obj |-> ref, flight |-> FlightAt(ref)]

----------------------------------------------------------------------------
(* GET /routes *)
GetRoutes ==
    /\ request' = [op |-> "routes"]
    /\ response' = Ok(routes)
    /\ UNCHANGED routes

(* GET /routes/:route_id *)
GetRoute(routeId) ==
    /\ request' = [op |-> "route", route_id |-> routeId]
    /\ response' =
         IF \E i \in 1..Len(routes) : routes[i].route_id = routeId
         THEN Ok(routes[CHOOSE i \in 1..Len(routes) : routes[i].route_id = routeId])
         ELSE Fail(404, "Route not found")
    /\ UNCHANGED routes

----------------------------------------------------------------------------
(* GET /direct-flights/:departure/:arrival?departureTime&arrivalTime *)

(* Array.from(routes.values()): the Map's positions in insertion order; *)
(* filter() is SelectSeq on them                                          *)
RouteValues == [i \in 1..Len(routes) |-> i]

IsDirectRoute(route, departure, arrival) ==
    route.departureDestination = departure /\ route.arrivalDestination = arrival

HasSeats_AllowZero(flight) == flight.availableSeats >= 0

HasSeats(flight) == flight.availableSeats > 0

WithinWindow_Exclusive(hint, at) ==
    \/ Falsy(hint)
    \/ ~IsNaN(hint) /\ ~IsNaN(at) /\ Abs(getTime(hint) - getTime(at)) < WindowMs

(* !hint || Math.abs(new Date(Date.parse(hint)).getTime() - flightTime) <= 86400000 *)
(* (a comparison with NaN is false)                                               *)
WithinWindow(hint, at) ==
    \/ Falsy(hint)
    \/ ~IsNaN(hint) /\ ~IsNaN(at) /\ Abs(getTime(hint) - getTime(at)) <= WindowMs

(* Set.add: insertion order, no second copy of the same object *)
SetAdd(set, ref) ==
    IF \E k \in 1..Len(set) : set[k] = ref THEN set ELSE Append(set, ref)

RECURSIVE DirectItinerary(_, _, _, _, _)
DirectItinerary(ri, k, departureTime, arrivalTime, set) ==
    IF k > Len(routes[ri].itineraries) THEN set
    ELSE LET flight == routes[ri].itineraries[k]
             keep == /\ HasSeats(flight)
                     /\ WithinWindow(departureTime, flight.departureAt)
                     /\ WithinWindow(arrivalTime, flight.arrivalAt)
         IN DirectItinerary(ri, k + 1, departureTime, arrivalTime,
                            IF keep THEN SetAdd(set, <<ri, k>>) ELSE set)

RECURSIVE DirectRoutes(_, _, _, _, _)
DirectRoutes(directRoutes, n, departureTime, arrivalTime, set) ==
    IF n > Len(directRoutes) THEN set
    ELSE DirectRoutes(directRoutes, n + 1, departureTime, arrivalTime,
            DirectItinerary(directRoutes[n], 1, departureTime, arrivalTime, set))

DirectFlights(departure, arrival, departureTime, arrivalTime) ==
    LET directRoutes ==
            SelectSeq(RouteValues, LAMBDA i : IsDirectRoute(routes[i], departure, arrival))
        directFlightsSet == DirectRoutes(directRoutes, 1, departureTime, arrivalTime, <<>>)
    IN [k \in 1..Len(directFlightsSet) |-> Entry(directFlightsSet[k])]

GetDirectFlights(departure, arrival, departureTime, arrivalTime) ==
    /\ request' = [op |-> "direct", departure |-> departure, arrival |-> arrival,
                   departureTime |-> departureTime, arrivalTime |-> arrivalTime]
    /\ LET directFlights == DirectFlights(departure, arrival, departureTime, arrivalTime)
       IN response' = IF Len(directFlights) > 0 THEN Ok(directFlights)
                      ELSE Fail(404, "No direct flights available")
    /\ UNCHANGED routes

----------------------------------------------------------------------------
(* POST /book {name, flightId, numSeats} *)

NotFound == <<0, 0>>

RECURSIVE ScanItinerary_FirstMatch(_, _, _, _)
ScanItinerary_FirstMatch(ri, k, flightId, found) ==
    IF k > Len(routes[ri].itineraries) THEN found
    ELSE ScanItinerary_FirstMatch(ri, k + 1, flightId,
            IF routes[ri].itineraries[k].flight_id = flightId /\ found = NotFound
            THEN <<ri, k>> ELSE found)

(* route.itineraries.forEach: every match overwrites bookedFlight/bookedRoute *)
RECURSIVE ScanItinerary(_, _, _, _)
ScanItinerary(ri, k, flightId, found) ==
    IF k > Len(routes[ri].itineraries) THEN found
    ELSE ScanItinerary(ri, k + 1, flightId,
            IF routes[ri].itineraries[k].flight_id = flightId THEN <<ri, k>> ELSE found)

RECURSIVE ScanRoutes_Loop(_, _, _)
ScanRoutes_Loop(ri, flightId, found) ==
    IF ri > Len(routes) THEN found
    ELSE ScanRoutes_Loop(ri + 1, flightId, ScanItinerary(ri, 1, flightId, found))

ScanRoutes_DefaultFirst(flightId) ==
    LET found == ScanRoutes_Loop(1, flightId, NotFound)
    IN IF found = NotFound THEN <<1, 1>> ELSE found

(* routes.forEach over the whole store, no short circuit *)
ScanRoutes(flightId) == ScanRoutes_Loop(1, flightId, NotFound)

NotEnoughSeats_OffByOne(bookedFlight, numSeats) == bookedFlight.availableSeats + 1 < numSeats

NotEnoughSeats_Never(bookedFlight, numSeats) == FALSE

(* bookedFlight.availableSeats < numSeats *)
NotEnoughSeats(bookedFlight, numSeats) == bookedFlight.availableSeats < numSeats

(* bookedFlight.availableSeats -= numSeats *)
SeatsAfter(bookedFlight, numSeats) == bookedFlight.availableSeats - numSeats

TotalPrice(bookedFlight, numSeats) == numSeats * bookedFlight.prices.adult

(* The conjunct on MaxSeats is the model's bound on the seat count (a negative *)
(* numSeats raises it without limit); the handler itself has no such test.    *)
Book(name, flightId, numSeats) ==
    LET found == ScanRoutes(flightId) IN
    /\ request' = [op |-> "book", name |-> name, flightId |-> flightId,
                   numSeats |-> numSeats]
    /\ IF found = NotFound
       THEN /\ response' = Fail(404, "Flight not found")
            /\ UNCHANGED routes
       ELSE LET bookedFlight == FlightAt(found)
                bookedRoute == routes[found[1]]
            IN IF NotEnoughSeats(bookedFlight, numSeats)
               THEN /\ response' = Fail(400, "Not enough seats available")
                    /\ UNCHANGED routes
               ELSE /\ SeatsAfter(bookedFlight, numSeats) <= MaxSeats
                    /\ routes' = [routes EXCEPT
                          ![found[1]].itineraries[found[2]].availableSeats =
                              SeatsAfter(bookedFlight, numSeats)]
                    /\ response' = Ok([name |-> name, flightId |-> flightId,
                          numSeats |-> numSeats,
                          totalPrice |-> TotalPrice(bookedFlight, numSeats),
                          departure |-> bookedRoute.departureDestination,
                          arrival |-> bookedRoute.arrivalDestination,
                          departureTime |-> bookedFlight.departureAt,
                          arrivalTime |-> bookedFlight.arrivalAt])

----------------------------------------------------------------------------
(* GET /connection-flights/:departureDestination/:arrivalDestination *)

LayoverMs(departingFlight, arrivingFlight) ==
    getTime(arrivingFlight.departureAt) - getTime(departingFlight.arrivalAt)

(* (ms / (1000 * 60)) + " minutes": the number printed, as whole minutes *)
(* and the milliseconds left over, and the suffix                        *)
LayoverTime(departingFlight, arrivingFlight) ==
    LET ms == LayoverMs(departingFlight, arrivingFlight)
    IN [whole |-> ms \div MinuteMs, restMs |-> ms % MinuteMs, suffix |-> " minutes"]

ConnectionValid_AtMostDay(departingRoute, arrivingRoute, departingFlight, arrivingFlight, departureTime, arrivalTime) ==
    /\ departingRoute.arrivalDestination = arrivingRoute.departureDestination
    /\ StrLeq(departingFlight.arrivalAt, arrivingFlight.departureAt)
    /\ LayoverMs(departingFlight, arrivingFlight) <= 24 * HourMs
    /\ \/ Falsy(departureTime)
       \/ /\ ~IsNaN(departureTime)
          /\ getTime(departingFlight.departureAt) <= getTime(departureTime) + DayMs
    /\ \/ Falsy(arrivalTime)
       \/ arrivingFlight.arrivalAt = arrivalTime

ConnectionValid_NeedsSeats(departingRoute, arrivingRoute, departingFlight, arrivingFlight, departureTime, arrivalTime) ==
    /\ departingFlight.availableSeats > 0
    /\ arrivingFlight.availableSeats > 0
    /\ departingRoute.arrivalDestination = arrivingRoute.departureDestination
    /\ StrLeq(departingFlight.arrivalAt, arrivingFlight.departureAt)
    /\ LayoverMs(departingFlight, arrivingFlight) < 24 * HourMs
    /\ \/ Falsy(departureTime)
       \/ /\ ~IsNaN(departureTime)
          /\ getTime(departingFlight.departureAt) <= getTime(departureTime) + DayMs
    /\ \/ Falsy(arrivalTime)
       \/ arrivingFlight.arrivalAt = arrivalTime

(* the if of lines 152-161; ms / (1000*60*60) < 24 is ms < 24 * (1000*60*60) *)
ConnectionValid(departingRoute, arrivingRoute, departingFlight, arrivingFlight, departureTime, arrivalTime) ==
    /\ departingRoute.arrivalDestination = arrivingRoute.departureDestination
    /\ StrLeq(departingFlight.arrivalAt, arrivingFlight.departureAt)
    /\ LayoverMs(departingFlight, arrivingFlight) < 24 * HourMs
    /\ \/ Falsy(departureTime)
       \/ /\ ~IsNaN(departureTime)
          /\ getTime(departingFlight.departureAt) <= getTime(departureTime) + DayMs
    /\ \/ Falsy(arrivalTime)
       \/ arrivingFlight.arrivalAt = arrivalTime

(* the entry pushed, after the map() of lines 182-202 *)
Connection(d, a, i, j, arrivalDestination) ==
    [departureFlight |-> Entry(<<d, i>>),
     arrivalFlight |-> Entry(<<a, j>>),
     layoverTime |-> LayoverTime(FlightAt(<<d, i>>), FlightAt(<<a, j>>)),
     route |-> [departureRoute |->
                   [departureDestination |-> routes[d].departureDestination,
                    arrivalDestination |-> routes[d].arrivalDestination],
                arrivalRoute |->
                   [departureDestination |-> routes[d].arrivalDestination,
                    arrivalDestination |-> arrivalDestination]]]

RECURSIVE ForEachArrivingFlight(_, _, _, _, _, _)
ForEachArrivingFlight(d, a, i, j, q, list) ==
    IF j > Len(routes[a].itineraries) THEN list
    ELSE ForEachArrivingFlight(d, a, i, j + 1, q,
            IF ConnectionValid(routes[d], routes[a], FlightAt(<<d, i>>), FlightAt(<<a, j>>),
                               q.departureTime, q.arrivalTime)
            THEN Append(list, Connection(d, a, i, j, q.arrivalDestination))
            ELSE list)

RECURSIVE ForEachDepartingFlight(_, _, _, _, _)
ForEachDepartingFlight(d, a, i, q, list) ==
    IF i > Len(routes[d].itineraries) THEN list
    ELSE ForEachDepartingFlight(d, a, i + 1, q, ForEachArrivingFlight(d, a, i, 1, q, list))

RECURSIVE ForEachArrivingRoute(_, _, _, _, _)
ForEachArrivingRoute(d, arrivingRoutes, n, q, list) ==
    IF n > Len(arrivingRoutes) THEN list
    ELSE ForEachArrivingRoute(d, arrivingRoutes, n + 1, q,
            ForEachDepartingFlight(d, arrivingRoutes[n], 1, q, list))

RECURSIVE ForEachDepartingRoute(_, _, _, _, _)
ForEachDepartingRoute(departingRoutes, m, arrivingRoutes, q, list) ==
    IF m > Len(departingRoutes) THEN list
    ELSE ForEachDepartingRoute(departingRoutes, m + 1, arrivingRoutes, q,
            ForEachArrivingRoute(departingRoutes[m], arrivingRoutes, 1, q, list))

ConnectingFlights(q) ==
    LET departingRoutes ==
            SelectSeq(RouteValues,
                      LAMBDA i : routes[i].departureDestination = q.departureDestination)
        arrivingRoutes ==
            SelectSeq(RouteValues,
                      LAMBDA i : routes[i].arrivalDestination = q.arrivalDestination)
    IN ForEachDepartingRoute(departingRoutes, 1, arrivingRoutes, q, <<>>)

GetConnectionFlights(departureDestination, arrivalDestination, departureTime, arrivalTime) ==
    LET q == [op |-> "connection", departureDestination |-> departureDestination,
              arrivalDestination |-> arrivalDestination,
              departureTime |-> departureTime, arrivalTime |-> arrivalTime]
    IN /\ request' = q
       /\ response' = Ok(ConnectingFlights(q))
       /\ UNCHANGED routes

----------------------------------------------------------------------------
(* The requests tried *)

Names == {"ann"}
FlightIds == {"F1", "F2", "F3", "F9"}
NumSeats == (0 - MaxNegSeats)..MaxNumSeats
RouteIds == {"r3", "r9"}

DirectDepartureHints ==
    { Absent, EmptyString, Unparseable,
      TS(T0 + DayMs + 8 * HourMs, 0),           (* F1 departs exactly 24 h before   *)
      TS(T0 + DayMs + 10 * HourMs + 1, Z2) }     (* F1 departs 24 h and 1 ms before  *)
DirectArrivalHints ==
    { Absent, TS(T0 + 10 * HourMs - DayMs, 0) }
DirectQueries ==
    ({<<"X", "Y">>} \X DirectDepartureHints \X DirectArrivalHints)
        \cup {<<<<"Y", "Z">>, Absent, Absent>>, <<<<"Z", "X">>, Absent, Absent>>}

ConnectionDepartureHints ==
    { Absent, Unparseable, TS(T0 + 8 * HourMs - DayMs, 0) }
ConnectionArrivalHints ==
    { Absent, TS(T0 + 13 * HourMs, 0), TS(T0 + 15 * HourMs, Z2) }
ConnectionQueries ==
    ({<<"X", "Z">>} \X ConnectionDepartureHints \X ConnectionArrivalHints)
        \cup {<<<<"X", "Y">>, Absent, Absent>>}

Next ==
    \/ GetRoutes
    \/ \E routeId \in RouteIds : GetRoute(routeId)
    \/ \E q \in DirectQueries : GetDirectFlights(q[1][1], q[1][2], q[2], q[3])
    \/ \E name \in Names, flightId \in FlightIds, numSeats \in NumSeats :
          Book(name, flightId, numSeats)
    \/ \E q \in ConnectionQueries : GetConnectionFlights(q[1][1], q[1][2], q[2], q[3])

Spec == Init /\ [][Next]_vars

----------------------------------------------------------------------------
(* Vocabulary of the properties *)

(* every Flight object of the store *)
AllFlights ==
    UNION { { <<ri, fi>> : fi \in 1..Len(routes[ri].itineraries) } : ri \in 1..Len(routes) }

Seats(ref) == routes[ref[1]].itineraries[ref[2]].availableSeats
SeatsNext(ref) == routes'[ref[1]].itineraries[ref[2]].availableSeats

(* the flights carrying an identifier, and the last of them in scan order *)
Matches(flightId) == { ref \in AllFlights : FlightAt(ref).flight_id = flightId }
Before(r1, r2) == r1[1] < r2[1] \/ (r1[1] = r2[1] /\ r1[2] < r2[2])
LastMatch(flightId) ==
    CHOOSE ref \in Matches(flightId) : \A o \in Matches(flightId) : o = ref \/ Before(o, ref)

(* the step serves a /book request *)
BookStep == request'.op = "book" /\ <<routes, request, response>>' # <<routes, request, response>>

(* C1: every flight of the store has availableSeats >= 0, whatever /book and *)
(* query requests have been served                                           *)
C1_SeatsNeverNegative == \A ref \in AllFlights : Seats(ref) >= 0

(* a booking has just taken the last seats of a flight *)
C1_Witness ==
    /\ request.op = "book" /\ response.status = 200 /\ request.numSeats > 0
    /\ Seats(LastMatch(request.flightId)) = 0

(* C2: a /book whose flightId matches a flight f (the last match in scan     *)
(* order) with numSeats <= f.availableSeats answers 200, leaves f with       *)
(* exactly numSeats fewer seats and returns totalPrice = numSeats * adult    *)
C2_BookingDecrements ==
    [][ (BookStep /\ Matches(request'.flightId) # {}
           /\ request'.numSeats <= Seats(LastMatch(request'.flightId)))
        => LET f == LastMatch(request'.flightId) IN
           /\ response'.status = 200
           /\ SeatsNext(f) = Seats(f) - request'.numSeats
           /\ response'.body.totalPrice = request'.numSeats * FlightAt(f).prices.adult
      ]_vars

(* two seats booked on the identifier that two flights carry *)
C2_Witness ==
    /\ request.op = "book" /\ request.flightId = "F1" /\ request.numSeats = 2
    /\ response.status = 200 /\ response.body.totalPrice = 500
    /\ Cardinality(Matches("F1")) = 2

(* C3: a /book whose flightId matches f with numSeats > f.availableSeats     *)
(* answers 400 'Not enough seats available' and changes no flight            *)
C3_CapacityExceeded ==
    [][ (BookStep /\ Matches(request'.flightId) # {}
           /\ request'.numSeats > Seats(LastMatch(request'.flightId)))
        => /\ response' = [status |-> 400, error |-> "Not enough seats available",
                           body |-> <<>>]
           /\ routes' = routes
      ]_vars

(* one seat more than the flight has was asked for *)
C3_Witness ==
    /\ request.op = "book" /\ response.status = 400
    /\ Matches(request.flightId) # {}
    /\ request.numSeats = Seats(LastMatch(request.flightId)) + 1

(* C4: a /book whose flightId matches no flight answers 404 'Flight not      *)
(* found' whatever numSeats is, and changes no flight                        *)
C4_UnknownFlight ==
    [][ (BookStep /\ Matches(request'.flightId) = {})
        => /\ response' = [status |-> 404, error |-> "Flight not found", body |-> <<>>]
           /\ routes' = routes
      ]_vars

(* an unknown flight asked for more seats than any flight has *)
C4_Witness ==
    /\ request.op = "book" /\ response.status = 404
    /\ Matches(request.flightId) = {}
    /\ \A ref \in AllFlights : request.numSeats > Seats(ref)

(* the flights answered by a /direct-flights or carried by a connection *)
Returned == { response.body[k].obj : k \in 1..Len(response.body) }

OnDirectRoute(ref) ==
    /\ routes[ref[1]].departureDestination = request.departure
    /\ routes[ref[1]].arrivalDestination = request.arrival

(* C5: without time hints /direct-flights answers exactly the flights with   *)
(* availableSeats > 0 of the routes from :departure to :arrival, with 200    *)
(* when there are some and 404 'No direct flights available' when none       *)
C5_DirectFlights ==
    (request.op = "direct" /\ request.departureTime = Absent /\ request.arrivalTime = Absent)
    => LET want == { ref \in AllFlights : OnDirectRoute(ref) /\ Seats(ref) > 0 } IN
       IF want = {}
       THEN response = [status |-> 404, error |-> "No direct flights available",
                        body |-> <<>>]
       ELSE /\ response.status = 200
            /\ Returned = want
            /\ Len(response.body) = Cardinality(want)
            /\ \A k \in 1..Len(response.body) :
                  response.body[k].flight = FlightAt(response.body[k].obj)

(* a flight of the route is sold out and the answer holds the others only *)
C5_Witness ==
    /\ request.op = "direct" /\ request.departureTime = Absent /\ request.arrivalTime = Absent
    /\ response.status = 200
    /\ \E ref \in AllFlights : OnDirectRoute(ref) /\ Seats(ref) = 0 /\ ref \notin Returned

Near(hint, at) == Abs(getTime(hint) - getTime(at)) <= 86400000

(* C6: with a departureTime hint h, a flight with seats on a matching route  *)
(* is answered iff |h - departureAt| <= 86,400,000 ms (and likewise for the  *)
(* arrivalTime hint and arrivalAt when that hint is given too)               *)
C6_DepartureWindow ==
    (request.op = "direct" /\ request.departureTime.kind = "ts"
        /\ request.arrivalTime.kind \in {"absent", "ts"})
    => /\ \A ref \in AllFlights :
            (OnDirectRoute(ref) /\ Seats(ref) > 0) =>
               ( (response.status = 200 /\ ref \in Returned)
                 <=> /\ Near(request.departureTime, FlightAt(ref).departureAt)
                     /\ request.arrivalTime.kind = "ts"
                           => Near(request.arrivalTime, FlightAt(ref).arrivalAt) )
       /\ response.status = 200 => \A ref \in Returned : OnDirectRoute(ref) /\ Seats(ref) > 0

(* one flight exactly 86,400,000 ms from the hint is answered, another      *)
(* 86,400,001 ms from it is not                                             *)
C6_Witness ==
    /\ request.op = "direct" /\ request.departureTime.kind = "ts"
    /\ request.arrivalTime = Absent /\ response.status = 200
    /\ \E ref \in Returned :
          Abs(getTime(request.departureTime) - getTime(FlightAt(ref).departureAt)) = 86400000
    /\ \E ref \in AllFlights \ Returned :
          /\ OnDirectRoute(ref) /\ Seats(ref) > 0
          /\ Abs(getTime(request.departureTime) - getTime(FlightAt(ref).departureAt)) = 86400001

(* the (d, a, fd, fa) of the k-th entry of a /connection-flights answer *)
Quad(k) ==
    LET e == response.body[k]
    IN <<e.departureFlight.obj[1], e.arrivalFlight.obj[1],
         e.departureFlight.obj[2], e.arrivalFlight.obj[2]>>

QuadBefore(x, y) ==
    \E n \in 1..4 : x[n] < y[n] /\ \A m \in 1..(n - 1) : x[m] = y[m]

(* every (d, a, fd, fa) the nested loops visit *)
Visited ==
    { <<d[1], a[1], d[2], a[2]>> : d \in { r \in AllFlights :
            routes[r[1]].departureDestination = request.departureDestination },
        a \in { r \in AllFlights :
            routes[r[1]].arrivalDestination = request.arrivalDestination } }

Gap(x) ==
    getTime(routes[x[2]].itineraries[x[4]].departureAt)
        - getTime(routes[x[1]].itineraries[x[3]].arrivalAt)

(* conditions 1 to 3: shared layover point, fd.arrivalAt <= fa.departureAt *)
(* as the strings compare, and a gap under 24 hours                       *)
Pairs(x) ==
    /\ routes[x[1]].arrivalDestination = routes[x[2]].departureDestination
    /\ StrLeq(routes[x[1]].itineraries[x[3]].arrivalAt,
              routes[x[2]].itineraries[x[4]].departureAt)
    /\ Gap(x) < 24 * 3600000

(* C7: without time hints /connection-flights answers the pairs (fd, fa)    *)
(* that meet the three conditions and no others, each once, in nested       *)
(* iteration order                                                          *)
C7_ConnectionPairs ==
    (request.op = "connection" /\ request.departureTime = Absent
        /\ request.arrivalTime = Absent)
    => /\ response.status = 200
       /\ { Quad(k) : k \in 1..Len(response.body) } = { x \in Visited : Pairs(x) }
       /\ \A k, l \in 1..Len(response.body) : k < l => QuadBefore(Quad(k), Quad(l))

(* a pair one millisecond under 24 hours is answered, a pair at exactly 24  *)
(* hours is not                                                             *)
C7_Witness ==
    /\ request.op = "connection" /\ request.departureTime = Absent
    /\ request.arrivalTime = Absent
    /\ \E k \in 1..Len(response.body) : Gap(Quad(k)) = 86400000 - 1
    /\ \E x \in Visited :
          /\ Gap(x) = 86400000
          /\ routes[x[1]].arrivalDestination = routes[x[2]].departureDestination
          /\ \A k \in 1..Len(response.body) : Quad(k) # x
    /\ Len(response.body) >= 2

(* conditions 4 and 5, on the hints *)
HintsAdmit(x) ==
    /\ \/ request.departureTime.kind \in {"absent", "empty"}
       \/ /\ request.departureTime.kind = "ts"
          /\ getTime(routes[x[1]].itineraries[x[3]].departureAt)
                <= getTime(request.departureTime) + 86400000
    /\ \/ request.arrivalTime.kind \in {"absent", "empty"}
       \/ routes[x[2]].itineraries[x[4]].arrivalAt = request.arrivalTime

(* C8: /connection-flights filters on no seat count: a flight with          *)
(* availableSeats = 0 is in no /direct-flights answer but stays in every    *)
(* pairing its timestamps qualify it for, and an empty answer is 200 with   *)
(* an empty sequence                                                        *)
C8_NoSeatFilterOnConnections ==
    /\ (request.op = "direct" /\ response.status = 200)
          => \A ref \in Returned : Seats(ref) # 0
    /\ request.op = "connection"
          => /\ response.status = 200 /\ response.error = ""
             /\ \A x \in Visited :
                   (Pairs(x) /\ HintsAdmit(x))
                      => \E k \in 1..Len(response.body) : Quad(k) = x
             /\ (~ \E x \in Visited : Pairs(x) /\ HintsAdmit(x)) => response.body = <<>>

(* a sold-out flight is carried by a connection *)
C8_Witness ==
    /\ request.op = "connection"
    /\ \E k \in 1..Len(response.body) :
          /\ response.body[k].departureFlight.flight.availableSeats = 0
          /\ response.body[k].arrivalFlight.flight.availableSeats = 0

(* C9: every /connection-flights entry carries layoverTime = N minutes with *)
(* N = (fa.departureAt - fd.arrivalAt) in minutes and 0 <= N < 1440         *)
C9_LayoverInRange ==
    request.op = "connection"
    => \A k \in 1..Len(response.body) :
          LET t == response.body[k].layoverTime IN
          /\ t.suffix = " minutes"
          /\ t.whole * 60000 + t.restMs = Gap(Quad(k))
          /\ 0 <= Gap(Quad(k)) /\ Gap(Quad(k)) < 1440 * 60000

(* C10: no request leaves a flight with more availableSeats than before it *)
C10_SeatsOnlyDecrease ==
    [][ \A ref \in AllFlights : SeatsNext(ref) <= Seats(ref) ]_vars

====
